---- MODULE Spec2Model ----
(***************************************************************************)
(* Model of the remote-led BLE server firmware (src/server/server.ino):    *)
(* the serial frame parser of doMainProcess, the conversion of an accepted *)
(* frame to a PM2.5 reading, and the loop()/Ticker/BLE-callback scheduler. *)
(*                                                                         *)
(* Fixed point: data.pmData and the float intermediates are held as the    *)
(* integer  value * Unit  (Unit = 1024); every value the code can compute  *)
(* is a multiple of 1/1024, so the representation is exact.                *)
(***************************************************************************)
EXTENDS Integers, Sequences, FiniteSets

VARIABLES
    deviceConnected,  \* bool deviceConnected
    bAbnormal,        \* bool bAbnormal
    bReadyTicker,     \* bool bReadyTicker
    incomeByte,       \* int incomeByte[7]
    sensorData,       \* int sensorData
    z,                \* int z
    sum,              \* int sum
    pmData,           \* data.pmData, times Unit
    rx,               \* bytes buffered on the serial input, oldest first
    pc,               \* position of the main task: "loop", "drain", "notify", "clear"
    txLog,            \* values notified on pCharacteristicTX, oldest first
    wire,             \* rest of the frame the sensor is transmitting
    framesSent,       \* frames the sensor has started
    fed,              \* history: bytes returned by Serial.read(), oldest first
    pmHist,           \* history: pmData at power-on and after each byte of fed
    outcome,          \* history: branch taken for the last byte of fed
    freeFed,          \* history: bytes fed by the parser-only environment
    validSinceTx,     \* history: a frame was accepted since the last notification
    kickedSinceConnect, \* history: kickRoutine ran since the last onConnect
    tickKicked,       \* history: kickedSinceConnect when the running tick began
    tickTx,           \* history: notifications sent by the running tick
                      \* (the tick histories are reset when the tick ends)
    accHist,          \* history: lengths of fed at which a frame was accepted
    tickMidFrame,     \* history: z was not 0 when the running tick began
    kickedInTick,     \* history: kickRoutine ran during the running tick
    buttonState,      \* data.buttonState of the button revision
    pinRead           \* c of doMainProcess in the button revision ("none" before)

vars == << deviceConnected, bAbnormal, bReadyTicker, incomeByte, sensorData, z,
           sum, pmData, rx, pc, txLog, wire, framesSent, fed, pmHist, outcome,
           freeFed, validSinceTx, kickedSinceConnect, tickKicked, tickTx,
           accHist, tickMidFrame, kickedInTick, buttonState, pinRead >>

parserVars == << incomeByte, sensorData, z, sum, pmData >>
flagVars == << deviceConnected, bAbnormal, bReadyTicker >>
histVars == << fed, pmHist, outcome, accHist >>
tickHist == << validSinceTx, kickedSinceConnect, tickKicked, tickTx >>
tickMarks == << tickMidFrame, kickedInTick >>
buttonVars == << buttonState, pinRead >>

----------------------------------------------------------------------------
(* Program constants *)

StartByte == 170
Terminator == 255
LastIndex == 6
Unit == 1024
FloatBits == 24

(* Bounds of the model *)

MaxFeed == 7
MaxFrames == 2
MaxNotify == 2
MaxLiveFrames == 1

----------------------------------------------------------------------------
(* Single-precision rounding (round to nearest, ties to even) of a         *)
(* non-negative value given as an integer multiple of 1/Unit.              *)

RECURSIVE Pow2(_)
Pow2(k) == IF k = 0 THEN 1 ELSE 2 * Pow2(k - 1)

RECURSIVE ExcessBits(_)
ExcessBits(n) == IF n < Pow2(FloatBits) THEN 0 ELSE 1 + ExcessBits(n \div 2)

ToFloat(n) ==
    LET e == ExcessBits(n)
        u == Pow2(e)
        q == n \div u
        r == n % u
    IN  IF e = 0 THEN n
        ELSE IF 2 * r > u \/ (2 * r = u /\ q % 2 = 1) THEN (q + 1) * u
        ELSE q * u

(* Variant: the two payload bytes taken in the other order. *)
VoltageSwapped(b1, b2) == ToFloat(((b2 * 256 + b1) * Unit * 5) \div 1024)

(* float vo = (incomeByte[1] * 256.0 + incomeByte[2]) / 1024.0 * 5.00;     *)
(* the double expression is exact, the assignment rounds it to float.      *)
Voltage(b1, b2) == ToFloat(((b1 * 256 + b2) * Unit * 5) \div 1024)

(* float c = vo * 700;  a float product, rounded to float.                 *)
Concentration(b1, b2) == ToFloat(Voltage(b1, b2) * 700)

----------------------------------------------------------------------------
(* The frame parser: the body of the while loop of doMainProcess for one   *)
(* byte b = Serial.read().  A parser state is a record of the globals.     *)

ZeroBuffer == [i \in 0..LastIndex |-> 0]

InitParser ==
    [z |-> 0, incomeByte |-> ZeroBuffer, sum |-> 0, sensorData |-> 0,
     pmData |-> 0, outcome |-> "none"]

(* Variant: the start marker is stored at cell 0 without resetting z. *)
StoreByteKeepsIndex(p, b) ==
    IF b = StartByte
    THEN [p EXCEPT !.sensorData = b, !.incomeByte[0] = b, !.outcome = "start"]
    ELSE [p EXCEPT !.sensorData = b, !.z = p.z + 1, !.incomeByte[p.z + 1] = b,
                   !.outcome = "store"]

StoreByte(p, b) ==
    IF b = StartByte
    THEN [p EXCEPT !.sensorData = b, !.z = 0, !.incomeByte[0] = b,
                   !.outcome = "start"]
    ELSE [p EXCEPT !.sensorData = b, !.z = p.z + 1, !.incomeByte[p.z + 1] = b,
                   !.outcome = "store"]

(* Variant: the sum is kept to eight bits. *)
FrameSumWraps(buf) == (buf[1] + buf[2] + buf[3] + buf[4]) % 256

FrameSum(buf) == buf[1] + buf[2] + buf[3] + buf[4]

FrameValid(buf) == buf[5] = FrameSum(buf) /\ buf[6] = Terminator

(* Variant: an accepted frame leaves the write index at 6. *)
AcceptFrameKeepsIndex(p) ==
    [p EXCEPT !.sum = FrameSum(p.incomeByte),
              !.pmData = Concentration(p.incomeByte[1], p.incomeByte[2]),
              !.outcome = "accept"]

(* Variant: a reading already held is not overwritten. *)
AcceptFrameFirstWins(p) ==
    [p EXCEPT !.sum = FrameSum(p.incomeByte),
              !.pmData = IF p.pmData = 0
                         THEN Concentration(p.incomeByte[1], p.incomeByte[2])
                         ELSE p.pmData,
              !.z = 0,
              !.outcome = "accept"]

AcceptFrame(p) ==
    [p EXCEPT !.sum = FrameSum(p.incomeByte),
              !.pmData = Concentration(p.incomeByte[1], p.incomeByte[2]),
              !.z = 0,
              !.outcome = "accept"]

(* Variant: a rejected frame also clears the Measurement. *)
RejectFrameClearsData(p) ==
    [p EXCEPT !.sum = FrameSum(p.incomeByte),
              !.pmData = 0,
              !.z = 0,
              !.sensorData = 0,
              !.incomeByte = ZeroBuffer,
              !.outcome = "reject"]

(* Variant: a rejected frame leaves the buffer as it is. *)
RejectFrameKeepsBuffer(p) ==
    [p EXCEPT !.sum = FrameSum(p.incomeByte),
              !.z = 0,
              !.sensorData = 0,
              !.outcome = "reject"]

RejectFrame(p) ==
    [p EXCEPT !.sum = FrameSum(p.incomeByte),
              !.z = 0,
              !.sensorData = 0,
              !.incomeByte = ZeroBuffer,
              !.outcome = "reject"]

ValidateFrame(p) ==
    IF p.z = LastIndex
    THEN IF FrameValid(p.incomeByte) THEN AcceptFrame(p) ELSE RejectFrame(p)
    ELSE p

ParseByte(p, b) == ValidateFrame(StoreByte(p, b))

RECURSIVE RunBytes(_, _)
RunBytes(p, bytes) ==
    IF bytes = << >> THEN p
    ELSE RunBytes(ParseByte(p, Head(bytes)), Tail(bytes))

Parser ==
    [z |-> z, incomeByte |-> incomeByte, sum |-> sum, sensorData |-> sensorData,
     pmData |-> pmData, outcome |-> outcome]

(* One pass of the while loop on the byte b returned by Serial.read(). *)
Consume(b) ==
    LET q == ParseByte(Parser, b)
    IN  /\ z' = q.z
        /\ incomeByte' = q.incomeByte
        /\ sum' = q.sum
        /\ sensorData' = q.sensorData
        /\ pmData' = q.pmData
        /\ outcome' = q.outcome
        /\ fed' = Append(fed, b)
        /\ pmHist' = Append(pmHist, q.pmData)
        /\ accHist' = IF q.outcome = "accept"
                      THEN Append(accHist, Len(fed) + 1)
                      ELSE accHist
        /\ validSinceTx' = (validSinceTx \/ q.outcome = "accept")

(* Serial.available() > 0, then Serial.read(). *)
ReadByte ==
    /\ rx # << >>
    /\ Consume(Head(rx))
    /\ rx' = Tail(rx)

----------------------------------------------------------------------------
(* Input domains *)

Bytes == {0, 1, StartByte, Terminator}

(* Frames the sensor puts on the serial line: two well-formed frames, a    *)
(* frame with a wrong checksum and a frame cut short on the line.          *)
SensorFrames ==
    { << StartByte, 1, 0, 0, 0, 1, Terminator >>,
      << StartByte, 0, 1, 0, 0, 1, Terminator >>,
      << StartByte, 1, 0, 0, 0, 0, Terminator >>,
      << StartByte, 1, 0 >> }

(* Input already buffered when the parser-only environment starts: it      *)
(* brings the parser to each write index with a used buffer.               *)
Prefixes ==
    { << >>,
      << StartByte, 1, 0, 0, 0, 1, Terminator, StartByte >>,
      << StartByte, 1, 0, 0, 0, 1, Terminator, 0, 1 >>,
      << StartByte, Terminator, 1, 0 >>,
      << 1, 0, 0, 0, 1 >>,
      << 0, 1, 0, 0, 1, Terminator, StartByte, 1, 0, 0, 0 >> }

(* Payloads of the frames of the decoding environment. *)
Payload == 0..Terminator

----------------------------------------------------------------------------
(* State after the globals are initialised and setup() has returned. *)

InitGlobals ==
    /\ deviceConnected = FALSE
    /\ bAbnormal = FALSE
    /\ bReadyTicker = FALSE
    /\ incomeByte = ZeroBuffer
    /\ sensorData = 0
    /\ z = 0
    /\ sum = 0
    /\ pmData = 0
    /\ pc = "loop"
    /\ txLog = << >>
    /\ wire = << >>
    /\ framesSent = 0
    /\ fed = << >>
    /\ pmHist = << 0 >>
    /\ outcome = "none"
    /\ freeFed = 0
    /\ validSinceTx = FALSE
    /\ kickedSinceConnect = FALSE
    /\ tickKicked = FALSE
    /\ tickTx = 0
    /\ accHist = << >>
    /\ tickMidFrame = FALSE
    /\ kickedInTick = FALSE
    /\ buttonState = 0
    /\ pinRead = "none"

Init == InitGlobals /\ rx = << >>

----------------------------------------------------------------------------
(* BLE server callbacks and the Ticker callback *)

(* Variant: a new connection discards a pending tick. *)
onConnectClearsTicker ==
    /\ ~deviceConnected
    /\ deviceConnected' = TRUE
    /\ bReadyTicker' = FALSE
    /\ kickedSinceConnect' = FALSE
    /\ UNCHANGED << tickMarks, buttonVars >>
    /\ UNCHANGED << bAbnormal, parserVars, rx, pc, txLog, wire, framesSent,
                    histVars, freeFed, validSinceTx, tickKicked, tickTx >>

onConnect ==
    /\ ~deviceConnected
    /\ deviceConnected' = TRUE
    /\ kickedSinceConnect' = FALSE
    /\ UNCHANGED << tickMarks, buttonVars >>
    /\ UNCHANGED << bAbnormal, bReadyTicker, parserVars, rx, pc, txLog, wire,
                    framesSent, histVars, freeFed, validSinceTx, tickKicked,
                    tickTx >>

(* Variant: a disconnection clears the Measurement. *)
onDisconnectClearsData ==
    /\ deviceConnected
    /\ deviceConnected' = FALSE
    /\ pmData' = 0
    /\ UNCHANGED << tickMarks, buttonVars >>
    /\ UNCHANGED << bAbnormal, bReadyTicker, incomeByte, sensorData, z, sum, rx,
                    pc, txLog, wire, framesSent, histVars, freeFed, tickHist >>

onDisconnect ==
    /\ deviceConnected
    /\ deviceConnected' = FALSE
    /\ UNCHANGED << tickMarks, buttonVars >>
    /\ UNCHANGED << bAbnormal, bReadyTicker, parserVars, rx, pc, txLog, wire,
                    framesSent, histVars, freeFed, tickHist >>

kickRoutine ==
    /\ bReadyTicker' = TRUE
    /\ kickedSinceConnect' = TRUE
    /\ kickedInTick' = (pc # "loop")
    /\ UNCHANGED << tickMidFrame, buttonVars >>
    /\ UNCHANGED << deviceConnected, bAbnormal, parserVars, rx, pc, txLog, wire,
                    framesSent, histVars, freeFed, validSinceTx, tickKicked,
                    tickTx >>

(* The UART receives the next byte of the sensor's current frame, or the   *)
(* first byte of a new frame.                                              *)
SerialReceive ==
    /\ \/ /\ wire # << >>
          /\ rx' = Append(rx, Head(wire))
          /\ wire' = Tail(wire)
          /\ UNCHANGED framesSent
       \/ /\ wire = << >>
          /\ framesSent < MaxFrames
          /\ \E f \in SensorFrames :
                /\ rx' = Append(rx, Head(f))
                /\ wire' = Tail(f)
          /\ framesSent' = framesSent + 1
    /\ UNCHANGED << tickMarks, buttonVars >>
    /\ UNCHANGED << flagVars, parserVars, pc, txLog, histVars, freeFed, tickHist >>

----------------------------------------------------------------------------
(* loop() and doMainProcess() *)

(* Variant: the error latch is tested for being set. *)
LoopGuardLatched == deviceConnected /\ bAbnormal /\ bReadyTicker

(* Variant: the connection state is not tested. *)
LoopGuardNoConnection == ~bAbnormal /\ bReadyTicker

LoopGuard == deviceConnected /\ ~bAbnormal /\ bReadyTicker

(* An iteration of loop() whose conditions fail. *)
LoopSkip ==
    /\ pc = "loop"
    /\ ~LoopGuard
    /\ UNCHANGED vars

(* Variant: each tick starts the parser at write index 0. *)
LoopEnterResetsIndex ==
    /\ pc = "loop"
    /\ LoopGuard
    /\ Len(txLog) < MaxNotify
    /\ pc' = "drain"
    /\ z' = 0
    /\ tickKicked' = kickedSinceConnect
    /\ tickTx' = 0
    /\ tickMidFrame' = (z # 0)
    /\ kickedInTick' = FALSE
    /\ UNCHANGED buttonVars
    /\ UNCHANGED << flagVars, incomeByte, sensorData, sum, pmData, rx, txLog,
                    wire, framesSent, histVars, freeFed, validSinceTx,
                    kickedSinceConnect >>

(* loop() calls doMainProcess(). *)
LoopEnter ==
    /\ pc = "loop"
    /\ LoopGuard
    /\ Len(txLog) < MaxNotify
    /\ pc' = "drain"
    /\ tickKicked' = kickedSinceConnect
    /\ tickTx' = 0
    /\ tickMidFrame' = (z # 0)
    /\ kickedInTick' = FALSE
    /\ UNCHANGED buttonVars
    /\ UNCHANGED << flagVars, parserVars, rx, txLog, wire, framesSent, histVars,
                    freeFed, validSinceTx, kickedSinceConnect >>

(* Variant: a rejected frame sets the error latch. *)
DrainByteLatches ==
    /\ pc = "drain"
    /\ ReadByte
    /\ bAbnormal' = (outcome' = "reject")
    /\ UNCHANGED << tickMarks, buttonVars >>
    /\ UNCHANGED << deviceConnected, bReadyTicker, pc, txLog, wire, framesSent,
                    freeFed, kickedSinceConnect, tickKicked, tickTx >>

(* One pass of  while (Serial.available() > 0). *)
DrainByte ==
    /\ pc = "drain"
    /\ ReadByte
    /\ UNCHANGED << tickMarks, buttonVars >>
    /\ UNCHANGED << flagVars, pc, txLog, wire, framesSent, freeFed,
                    kickedSinceConnect, tickKicked, tickTx >>

(* Variant: the while loop ends with bytes still buffered. *)
DrainDoneEarly ==
    /\ pc = "drain"
    /\ pc' = "notify"
    /\ UNCHANGED << tickMarks, buttonVars >>
    /\ UNCHANGED << flagVars, parserVars, rx, txLog, wire, framesSent, histVars,
                    freeFed, tickHist >>

(* Variant: doMainProcess returns without notifying. *)
DrainDoneReturns ==
    /\ pc = "drain"
    /\ rx = << >>
    /\ pc' = "clear"
    /\ UNCHANGED << tickMarks, buttonVars >>
    /\ UNCHANGED << flagVars, parserVars, rx, txLog, wire, framesSent, histVars,
                    freeFed, tickHist >>

(* Serial.available() == 0 ends the while loop. *)
DrainDone ==
    /\ pc = "drain"
    /\ rx = << >>
    /\ pc' = "notify"
    /\ UNCHANGED << tickMarks, buttonVars >>
    /\ UNCHANGED << flagVars, parserVars, rx, txLog, wire, framesSent, histVars,
                    freeFed, tickHist >>

(* Variant: the Measurement is cleared once it has been sent. *)
NotifyClearsData ==
    /\ pc = "notify"
    /\ txLog' = Append(txLog, pmData)
    /\ pmData' = 0
    /\ tickTx' = tickTx + 1
    /\ validSinceTx' = FALSE
    /\ pc' = "clear"
    /\ UNCHANGED << tickMarks, buttonVars >>
    /\ UNCHANGED << flagVars, incomeByte, sensorData, z, sum, rx, wire,
                    framesSent, histVars, freeFed, kickedSinceConnect,
                    tickKicked >>

(* pCharacteristicTX->setValue(&data), pCharacteristicTX->notify(). *)
Notify ==
    /\ pc = "notify"
    /\ txLog' = Append(txLog, pmData)
    /\ tickTx' = tickTx + 1
    /\ validSinceTx' = FALSE
    /\ pc' = "clear"
    /\ UNCHANGED << tickMarks, buttonVars >>
    /\ UNCHANGED << flagVars, parserVars, rx, wire, framesSent, histVars,
                    freeFed, kickedSinceConnect, tickKicked >>

(* Back in loop():  bReadyTicker = false. *)
ClearTicker ==
    /\ pc = "clear"
    /\ bReadyTicker' = FALSE
    /\ pc' = "loop"
    /\ tickMidFrame' = FALSE
    /\ kickedInTick' = FALSE
    /\ tickKicked' = FALSE
    /\ tickTx' = 0
    /\ UNCHANGED buttonVars
    /\ UNCHANGED << deviceConnected, bAbnormal, parserVars, rx, txLog, wire,
                    framesSent, histVars, freeFed, validSinceTx,
                    kickedSinceConnect >>

Next ==
    \/ onConnect
    \/ onDisconnect
    \/ kickRoutine
    \/ SerialReceive
    \/ LoopSkip
    \/ LoopEnter
    \/ DrainByte
    \/ DrainDone
    \/ Notify
    \/ ClearTicker

Spec == Init /\ [][Next]_vars

(* Frames of the sensor while progress of the main task is examined: a     *)
(* well-formed frame and a frame cut short on the line.                    *)
LiveFrames ==
    { << StartByte, 1, 0, 0, 0, 1, Terminator >>,
      << StartByte, 1, 0 >> }

(* The UART receives a byte; the sensor sends finitely many frames.        *)
SerialReceiveLive ==
    /\ \/ /\ wire # << >>
          /\ rx' = Append(rx, Head(wire))
          /\ wire' = Tail(wire)
          /\ UNCHANGED framesSent
       \/ /\ wire = << >>
          /\ framesSent < MaxLiveFrames
          /\ \E f \in LiveFrames :
                /\ rx' = Append(rx, Head(f))
                /\ wire' = Tail(f)
          /\ framesSent' = framesSent + 1
    /\ UNCHANGED << tickMarks, buttonVars >>
    /\ UNCHANGED << flagVars, parserVars, pc, txLog, histVars, freeFed, tickHist >>

NextLive ==
    \/ onConnect
    \/ onDisconnect
    \/ kickRoutine
    \/ SerialReceiveLive
    \/ LoopSkip
    \/ LoopEnter
    \/ DrainByte
    \/ DrainDone
    \/ Notify
    \/ ClearTicker

(* The Arduino core calls loop() again and again, and every statement of  *)
(* the main task that can run does run.                                    *)
SpecLive ==
    /\ Init
    /\ [][NextLive]_vars
    /\ WF_vars(LoopEnter)
    /\ WF_vars(DrainByte)
    /\ WF_vars(DrainDone)
    /\ WF_vars(Notify)
    /\ WF_vars(ClearTicker)

----------------------------------------------------------------------------
(* The earlier revision: doMainProcess() reads the push button and sends   *)
(* its state; callbacks, timer and loop() are the same.                    *)

(* Levels digitalRead() returns: LOW and HIGH. *)
PinLevels == {0, 1}

(* Variant: a LOW reading is taken for a failed reading. *)
IsNanLow(c) == c = 0

(* isnan() of an int: the reading is converted to a floating-point number, *)
(* and every int converts to a number.                                     *)
IsNan(c) == c \notin Int

(* loop() calls doMainProcess(). *)
ButtonEnter ==
    /\ pc = "loop"
    /\ LoopGuard
    /\ Len(txLog) < MaxNotify
    /\ pc' = "main"
    /\ tickKicked' = kickedSinceConnect
    /\ tickTx' = 0
    /\ kickedInTick' = FALSE
    /\ UNCHANGED << tickMidFrame, buttonVars >>
    /\ UNCHANGED << flagVars, parserVars, rx, txLog, wire, framesSent, histVars,
                    freeFed, validSinceTx, kickedSinceConnect >>

(* int c = digitalRead(buttonPin); if (isnan(c)) return;                   *)
(* data.buttonState = c.                                                   *)
ButtonRead ==
    /\ pc = "main"
    /\ \E c \in PinLevels :
          /\ pinRead' = c
          /\ IF IsNan(c)
             THEN /\ pc' = "clear"
                  /\ UNCHANGED buttonState
             ELSE /\ pc' = "send"
                  /\ buttonState' = c
    /\ UNCHANGED tickMarks
    /\ UNCHANGED << flagVars, parserVars, rx, txLog, wire, framesSent, histVars,
                    freeFed, tickHist >>

(* pCharacteristicTX->setValue(&data), pCharacteristicTX->notify(). *)
ButtonNotify ==
    /\ pc = "send"
    /\ txLog' = Append(txLog, buttonState)
    /\ tickTx' = tickTx + 1
    /\ pc' = "clear"
    /\ UNCHANGED << tickMarks, buttonVars >>
    /\ UNCHANGED << flagVars, parserVars, rx, wire, framesSent, histVars,
                    freeFed, validSinceTx, kickedSinceConnect, tickKicked >>

NextButton ==
    \/ onConnect
    \/ onDisconnect
    \/ kickRoutine
    \/ LoopSkip
    \/ ButtonEnter
    \/ ButtonRead
    \/ ButtonNotify
    \/ ClearTicker

SpecButton == Init /\ [][NextButton]_vars

----------------------------------------------------------------------------
(* The parser alone: the buffered prefix is read, then any byte of Bytes   *)
(* is fed, MaxFeed times.                                                  *)

InitParserOnly == InitGlobals /\ rx \in Prefixes

ReadBuffered ==
    /\ ReadByte
    /\ UNCHANGED << tickMarks, buttonVars >>
    /\ UNCHANGED << flagVars, pc, txLog, wire, framesSent, freeFed,
                    kickedSinceConnect, tickKicked, tickTx >>

Feed ==
    /\ rx = << >>
    /\ freeFed < MaxFeed
    /\ \E b \in Bytes : Consume(b)
    /\ freeFed' = freeFed + 1
    /\ UNCHANGED << tickMarks, buttonVars >>
    /\ UNCHANGED << flagVars, rx, pc, txLog, wire, framesSent,
                    kickedSinceConnect, tickKicked, tickTx >>

NextParser == ReadBuffered \/ Feed

SpecParser == InitParserOnly /\ [][NextParser]_vars

----------------------------------------------------------------------------
(* The decoding of one frame with a correct checksum and terminator, for   *)
(* every pair of leading payload bytes.                                    *)

InitDecode ==
    /\ InitGlobals
    /\ \E b1 \in Payload, b2 \in Payload :
          /\ b1 + b2 <= Terminator
          /\ rx = << StartByte, b1, b2, 0, 0, b1 + b2, Terminator >>

SpecDecode == InitDecode /\ [][ReadBuffered]_vars

----------------------------------------------------------------------------
(* Vocabulary of the properties *)

NFed == Len(fed)

(* The last n bytes read, oldest first (n <= NFed). *)
LastBytes(n) == SubSeq(fed, NFed - n + 1, NFed)

(* pmData after the first k bytes of fed. *)
PmAfter(k) == pmHist[k + 1]

NoStartIn(w, from, to) == \A i \in from..to : w[i] # StartByte

(* A 7-byte window w (w[1] is byte 0) with the start marker, a matching    *)
(* checksum and the terminator.                                            *)
WindowValid(w) ==
    /\ w[1] = StartByte
    /\ w[6] = w[2] + w[3] + w[4] + w[5]
    /\ w[7] = Terminator

(* ((b1*256 + b2) / 1024 * 5) * 700 in exact arithmetic, times Unit. *)
ExactPm(b1, b2) == (b1 * 256 + b2) * 3500 * (Unit \div 1024)

Abs(x) == IF x < 0 THEN 0 - x ELSE x

ExampleFrame == << StartByte, 1, 0, 0, 0, 1, Terminator >>

----------------------------------------------------------------------------
(* C1: a Measurement is produced at a byte if and only if the seven bytes  *)
(* read last form a window that begins with 0xAA, whose byte 5 is the sum  *)
(* of bytes 1..4 and whose byte 6 is 255.                                  *)
C1_MeasurementIffStartWindow ==
    (outcome = "accept") <=> (NFed >= 7 /\ WindowValid(LastBytes(7)))

----------------------------------------------------------------------------
(* C2 as stated: an accepted frame sets pmData to exactly                  *)
(* (b1*256+b2)*3500/1024, and the example frame yields 875.                *)
C2_ExactConversion ==
    /\ outcome = "accept" =>
          pmData = ExactPm(incomeByte[1], incomeByte[2])
    /\ fed = ExampleFrame => (outcome = "accept" /\ pmData = 875 * Unit)

(* C2 amended: an accepted frame sets pmData to the single-precision       *)
(* rounding of (b1*256+b2)*3500/1024: within a relative error of 2^-24,    *)
(* exact whenever (b1*256+b2)*875 < 2^24; the example frame yields 875.    *)
C2_RoundedConversion ==
    /\ outcome = "accept" =>
          LET n == incomeByte[1] * 256 + incomeByte[2]
              exact == ExactPm(incomeByte[1], incomeByte[2])
          IN  /\ Abs(pmData - exact) <= exact \div Pow2(FloatBits)
              /\ (n * 875 < Pow2(FloatBits) => pmData = exact)
    /\ fed = ExampleFrame => (outcome = "accept" /\ pmData = 875 * Unit)

(* The frame [0xAA,254,1,0,0,255,0xFF] is accepted and its reading is      *)
(* rounded: 227587504/1024 instead of 227587500/1024.                      *)
C2_Witness ==
    /\ outcome = "accept"
    /\ incomeByte[1] = 254
    /\ incomeByte[2] = 1
    /\ pmData = 227587504

----------------------------------------------------------------------------
(* C3: after a 7-byte frame that starts with 0xAA, holds no other 0xAA and *)
(* has a wrong checksum or a wrong terminator, no Measurement was produced *)
(* and pmData is what it was before the frame, whatever came before.       *)
BadFrame(w) ==
    /\ w[1] = StartByte
    /\ NoStartIn(w, 2, 7)
    /\ (w[6] # w[2] + w[3] + w[4] + w[5] \/ w[7] # Terminator)

C3_BadFrameNoMeasurement ==
    (NFed >= 7 /\ BadFrame(LastBytes(7))) =>
        /\ outcome = "reject"
        /\ \A k \in (NFed - 7)..NFed : PmAfter(k) = PmAfter(NFed - 7)
        /\ pmData = PmAfter(NFed - 7)

(* A bad frame was read in the middle of another frame, with a Measurement *)
(* already held.                                                           *)
C3_Witness ==
    /\ NFed = 16
    /\ SubSeq(fed, 1, 9) = << StartByte, 1, 0, 0, 0, 1, Terminator, 0, 1 >>
    /\ BadFrame(LastBytes(7))
    /\ pmData = 875 * Unit

----------------------------------------------------------------------------
(* C4: a 0xAA byte sets the write index to 0 and buffer[0] to 170 without  *)
(* validation and without touching the Measurement; the k non-0xAA bytes   *)
(* after it are stored at 1..k, and the sixth is validated as that frame   *)
(* alone.                                                                  *)
AfterStart(k) ==
    /\ NFed >= k + 1
    /\ fed[NFed - k] = StartByte
    /\ \A i \in 1..k : fed[NFed - k + i] # StartByte

C4_StartByteRestarts ==
    /\ AfterStart(0) =>
          /\ z = 0
          /\ incomeByte[0] = StartByte
          /\ outcome = "start"
          /\ pmData = PmAfter(NFed - 1)
    /\ \A k \in 1..5 :
          AfterStart(k) =>
              /\ z = k
              /\ outcome = "store"
              /\ \A i \in 0..k : incomeByte[i] = fed[NFed - k + i]
              /\ pmData = PmAfter(NFed - k - 1)
    /\ AfterStart(6) =>
          LET w == LastBytes(7)
          IN  /\ z = 0
              /\ outcome = IF WindowValid(w) THEN "accept" ELSE "reject"
              /\ WindowValid(w) =>
                    /\ \A i \in 0..6 : incomeByte[i] = w[i + 1]
                    /\ pmData = Concentration(w[2], w[3])
              /\ ~WindowValid(w) => pmData = PmAfter(NFed - 7)

(* A 0xAA read at write index 3 was followed by a frame that was accepted. *)
C4_Witness ==
    /\ NFed = 11
    /\ SubSeq(fed, 1, 4) = << StartByte, Terminator, 1, 0 >>
    /\ AfterStart(6)
    /\ outcome = "accept"
    /\ pmData # 0

----------------------------------------------------------------------------
(* C10: right after a byte whose validation fails, the write index is 0    *)
(* and the seven buffer cells are 0, and a well-formed frame read next is  *)
(* parsed as from the power-on state.                                      *)
DataBytes == Bytes \ {StartByte}

WellFormedFrames ==
    { << StartByte, p[1], p[2], p[3], p[4], p[1] + p[2] + p[3] + p[4],
         Terminator >> :
      p \in { q \in DataBytes \X DataBytes \X DataBytes \X DataBytes :
                 q[1] + q[2] + q[3] + q[4] \in DataBytes } }

SameParse(p, q) ==
    /\ p.z = q.z
    /\ p.incomeByte = q.incomeByte
    /\ p.pmData = q.pmData
    /\ p.outcome = q.outcome

C10_RejectResetsParser ==
    outcome = "reject" =>
        /\ z = 0
        /\ incomeByte = ZeroBuffer
        /\ \A w \in WellFormedFrames :
              SameParse(RunBytes(Parser, w), RunBytes(InitParser, w))

(* A frame was rejected while a Measurement was held. *)
C10_Witness ==
    /\ outcome = "reject"
    /\ pmData # 0
    /\ NFed >= 7

----------------------------------------------------------------------------
(* Steps seen from outside *)

Notified == txLog' # txLog
ByteRead == fed' # fed
ParserSame == UNCHANGED << parserVars, fed, outcome >>

----------------------------------------------------------------------------
(* C5 as stated: while deviceConnected is false or bAbnormal is true an    *)
(* iteration of loop() reads no byte, changes no parser state and sends    *)
(* nothing, and no step at all reads a byte or sends a notification while  *)
(* deviceConnected is false.                                               *)
C5_NothingWhileDisconnected ==
    [][ /\ (pc = "loop" /\ (~deviceConnected \/ bAbnormal)) =>
              (pc' = "loop" /\ ParserSame /\ ~Notified)
        /\ ~deviceConnected => (~Notified /\ ~ByteRead) ]_vars

(* C5 amended: an iteration of loop() that finds deviceConnected false or  *)
(* bAbnormal true reads no byte, changes no parser state and sends         *)
(* nothing; bytes are read and notifications sent only inside a run of     *)
(* doMainProcess, which loop() starts only with deviceConnected true,      *)
(* bAbnormal false and bReadyTicker true.                                  *)
C5_NothingOutsideTick ==
    [][ /\ (pc = "loop" /\ (~deviceConnected \/ bAbnormal)) =>
              (pc' = "loop" /\ ParserSame /\ ~Notified)
        /\ (Notified \/ ByteRead) => pc \in {"drain", "notify"}
        /\ (pc = "loop" /\ pc' # "loop") =>
              (deviceConnected /\ ~bAbnormal /\ bReadyTicker) ]_vars

(* A tick is pending and bytes are buffered, the device is disconnected    *)
(* and loop() has read and sent nothing.                                   *)
C5_Witness ==
    /\ ~deviceConnected
    /\ pc = "loop"
    /\ bReadyTicker
    /\ Len(rx) >= 7
    /\ fed = << >>
    /\ txLog = << >>

----------------------------------------------------------------------------
(* C6: a notification sent when no frame was accepted since the previous   *)
(* notification carries the value of the previous notification.            *)
C6_StaleValueResent ==
    [][ (Notified /\ txLog # << >> /\ ~validSinceTx) =>
            txLog' = Append(txLog, txLog[Len(txLog)]) ]_vars

(* Two notifications of the same reading, the second after a tick that     *)
(* ended on a rejected frame.                                              *)
C6_Witness ==
    /\ Len(txLog) = 2
    /\ txLog[1] = 875 * Unit
    /\ txLog[2] = txLog[1]
    /\ outcome = "reject"
    /\ NFed = 14
    /\ pc = "clear"

----------------------------------------------------------------------------
(* C7: a tick sends exactly one notification, after its drain loop has     *)
(* ended, carrying pmData as it is then, and bReadyTicker is cleared after *)
(* the notification.                                                       *)
C7_OneNotificationPerTick ==
    [][ /\ Notified =>
              /\ pc = "notify"
              /\ tickTx = 0
              /\ txLog' = Append(txLog, pmData)
              /\ pc' = "clear"
        /\ (pc = "loop" /\ pc' # "loop") => pc' = "drain"
        /\ (pc = "drain" /\ pc' # "drain") => (pc' = "notify" /\ rx = << >>)
        /\ pc \in {"notify", "clear"} => ~ByteRead
        /\ (pc = "notify" /\ pc' # "notify") => Notified
        /\ (pc = "clear" /\ pc' # "clear") =>
              (tickTx = 1 /\ pc' = "loop" /\ ~bReadyTicker') ]_vars

(* A tick that drained a frame has sent its one notification. *)
C7_Witness ==
    /\ pc = "clear"
    /\ tickTx = 1
    /\ NFed >= 7
    /\ txLog[Len(txLog)] = pmData
    /\ pmData # 0

----------------------------------------------------------------------------
(* C8 as stated: a timer firing while the connection is inactive causes no *)
(* drain and no notification, also not after a later connect: a tick       *)
(* begins only when kickRoutine ran after the last onConnect.              *)
C8_TickFollowsKickAfterConnect ==
    [][ /\ (pc = "loop" /\ ~deviceConnected) =>
              (pc' = "loop" /\ ~ByteRead /\ ~Notified)
        /\ (pc = "loop" /\ pc' = "drain") => kickedSinceConnect ]_vars

(* C8 amended: a timer firing while the connection is inactive causes no   *)
(* drain and no notification while the connection stays inactive, but it   *)
(* sets bReadyTicker, which only the end of a tick clears, so a tick can   *)
(* begin after a later connect without a new firing.                       *)
C8_KickLatchedAcrossConnect ==
    [][ /\ (pc = "loop" /\ ~deviceConnected) =>
              (pc' = "loop" /\ ~ByteRead /\ ~Notified)
        /\ (bReadyTicker /\ ~bReadyTicker') => pc = "clear"
        /\ (pc = "loop" /\ pc' = "drain") => (bReadyTicker /\ deviceConnected)
      ]_vars

(* The first notification was sent by a tick that began with no timer      *)
(* firing since the connect.                                               *)
C8_Witness ==
    /\ pc = "clear"
    /\ tickTx = 1
    /\ ~tickKicked
    /\ Len(txLog) = 1

----------------------------------------------------------------------------
(* C9: the error latch bAbnormal is never set, also not by a malformed     *)
(* frame, and the main loop is not disabled.                               *)
C9_NeverAbnormal ==
    /\ bAbnormal = FALSE
    /\ (pc = "loop" /\ deviceConnected /\ bReadyTicker /\ Len(txLog) < MaxNotify)
          => ENABLED LoopEnter

(* A tick ran to its end after a frame was rejected. *)
C9_Witness ==
    /\ outcome = "reject"
    /\ pc = "clear"
    /\ Len(txLog) = 2
    /\ ~bAbnormal

----------------------------------------------------------------------------
(* C11: every store incomeByte[z] happens with 0 <= z <= 6, and after each *)
(* byte 0 <= z <= 5: the index is reset each time it reaches 6.            *)
StoreIndex(b) == IF b = StartByte THEN 0 ELSE z + 1

C11_IndexInsideBuffer ==
    [][ ByteRead =>
          LET b == fed'[Len(fed')]
          IN  /\ z \in 0..5
              /\ StoreIndex(b) \in 0..LastIndex
              /\ StoreIndex(b) \in DOMAIN incomeByte
              /\ DOMAIN incomeByte' = 0..LastIndex
              /\ z' \in 0..5
              /\ (StoreIndex(b) = LastIndex) => z' = 0 ]_vars

(* The index reached 6 twice, for an accepted and then a rejected frame,   *)
(* and is back at 0.                                                       *)
C11_Witness ==
    /\ NFed = 13
    /\ PmAfter(7) = 875 * Unit
    /\ outcome = "reject"
    /\ z = 0

----------------------------------------------------------------------------
(* C12: whenever a Measurement is produced, the seventh-last byte read was *)
(* 0xAA: the six bytes at positions 1..6 directly follow a start marker.   *)
C12_AcceptedFrameHasStart ==
    outcome = "accept" => (NFed >= 7 /\ fed[NFed - 6] = StartByte)

----------------------------------------------------------------------------
(* C13: the checksum is compared with the plain integer sum of bytes 1..4: *)
(* a frame is accepted only if that sum is at most 255 and byte 5 equals   *)
(* it; a frame whose payload sums to more than 255 is rejected, also when  *)
(* byte 5 is the sum modulo 256.                                           *)
C13_ChecksumNoWrap ==
    outcome \in {"accept", "reject"} =>
        LET w == LastBytes(6)
            s == w[1] + w[2] + w[3] + w[4]
        IN  /\ sum = s
            /\ (outcome = "accept") <=>
                  (s <= 255 /\ w[5] = s /\ w[6] = Terminator)
            /\ s > 255 => outcome = "reject"

(* A frame whose payload sums to 256 and whose byte 5 is 0 was rejected. *)
C13_Witness ==
    /\ NFed >= 7
    /\ LastBytes(7) = << StartByte, Terminator, 1, 0, 0, 0, Terminator >>
    /\ outcome = "reject"
    /\ sum = 256

----------------------------------------------------------------------------
(* C14: data.pmData is written only by the validation step that accepts a  *)
(* frame: callbacks, timer firings, notifications, start bytes, partial    *)
(* and rejected frames leave it unchanged, also across a disconnection.    *)
C14_OnlyAcceptWritesMeasurement ==
    [][ /\ pmData' # pmData => (ByteRead /\ outcome' = "accept")
        /\ (ByteRead /\ outcome' # "accept") => pmData' = pmData
        /\ deviceConnected' # deviceConnected => pmData' = pmData
        /\ bReadyTicker' # bReadyTicker => pmData' = pmData
        /\ Notified => pmData' = pmData ]_vars

(* The reading 875 was notified, then a frame was rejected and the device  *)
(* disconnected: the reading is still held.                                *)
C14_Witness ==
    /\ pmData = 875 * Unit
    /\ txLog # << >>
    /\ outcome = "reject"
    /\ ~deviceConnected
    /\ pc = "loop"

----------------------------------------------------------------------------
(* C15: a tick sends one notification, and it carries the value decoded    *)
(* from the last frame accepted so far; when no frame was accepted since   *)
(* the previous notification it repeats that one, so the value of a frame  *)
(* followed by another accepted frame in the same drain is never sent.     *)
LastAcceptedValue ==
    LET k == accHist[Len(accHist)]
    IN  Concentration(fed[k - 5], fed[k - 4])

C15_LatestValueWins ==
    [][ Notified =>
          /\ Len(txLog') = Len(txLog) + 1
          /\ txLog'[Len(txLog')] =
                IF validSinceTx THEN LastAcceptedValue
                ELSE IF txLog # << >> THEN txLog[Len(txLog)]
                ELSE 0 ]_vars

(* The first tick drained two frames with different readings, 875 and      *)
(* then 3500/1024, and notified the second one only.                       *)
C15_Witness ==
    /\ accHist = << 7, 14 >>
    /\ PmAfter(7) = 875 * Unit
    /\ txLog = << 3500 >>
    /\ pc = "clear"

----------------------------------------------------------------------------
(* C16: the flag handoff loses no tick: whenever bReadyTicker is cleared   *)
(* at the end of a tick, kickRoutine has not run since that run of         *)
(* doMainProcess began.                                                    *)
C16_NoTickLost ==
    [][ (pc = "clear" /\ pc' = "loop") => ~kickedInTick ]_vars

----------------------------------------------------------------------------
(* C17: with the main loop scheduled fairly, a timer firing seen while the *)
(* device is connected and the latch is clear leads to a notification      *)
(* unless the connection drops first, and a tick that has begun leads back *)
(* to the idle state with bReadyTicker cleared.                            *)
TickDue ==
    /\ pc = "loop"
    /\ deviceConnected
    /\ ~bAbnormal
    /\ bReadyTicker
    /\ Len(txLog) < MaxNotify

----------------------------------------------------------------------------
(* C18: a run of doMainProcess reads the buffered bytes one at a time from *)
(* the head of the serial buffer, each byte once and in arrival order; the *)
(* serial line only appends to the buffer; the drain loop is left only     *)
(* with the buffer empty and only towards the notify step; and with        *)
(* finitely many bytes arriving the drain loop always reaches the notify   *)
(* step, a run that finds no byte included.                                *)
C18_DrainRunsToCompletion ==
    /\ [][ /\ ByteRead =>
                /\ pc = "drain"
                /\ rx # << >>
                /\ fed' = Append(fed, Head(rx))
                /\ rx' = Tail(rx)
           /\ (~ByteRead /\ rx' # rx) =>
                \E b \in Payload : rx' = Append(rx, b)
           /\ pc = "drain" => pc' \in {"drain", "notify"}
           /\ (pc = "drain" /\ pc' = "notify") => (rx = << >> /\ rx' = << >>)
         ]_vars
    /\ (pc = "drain") ~> (pc = "notify")

(* A run has drained a whole frame that was buffered and stands at the     *)
(* notify step with the buffer empty; the run before it found no complete  *)
(* frame and notified all the same.                                        *)
C18_Witness ==
    /\ pc = "notify"
    /\ rx = << >>
    /\ NFed = 7
    /\ outcome = "accept"
    /\ txLog = << 0 >>

----------------------------------------------------------------------------
(* C19: the parser (write index, buffer, checksum, Measurement) and the    *)
(* list of Measurement updates change only when a byte is read, and then   *)
(* exactly as one pass of the parser over that byte prescribes; starting   *)
(* and ending a tick, connecting, disconnecting and the timer leave them   *)
(* as they are.  So the updates are those of one run over the same bytes,  *)
(* however the bytes are split over ticks.                                 *)
C19_ParserCarriedAcrossTicks ==
    [][ /\ ~ByteRead => (Parser' = Parser /\ pmHist' = pmHist)
        /\ ByteRead =>
              /\ Parser' = ParseByte(Parser, Head(rx))
              /\ pmHist' = Append(pmHist, ParseByte(Parser, Head(rx)).pmData)
      ]_vars

(* A frame whose first bytes were read by an earlier tick is completed and *)
(* accepted by the present tick.                                           *)
C19_Witness ==
    /\ pc = "drain"
    /\ tickMidFrame
    /\ NFed = 7
    /\ fed = ExampleFrame
    /\ outcome = "accept"
    /\ pmData = 875 * Unit

----------------------------------------------------------------------------
====
